---- MODULE Spec2Model ----
(***************************************************************************)
(* Grid path search of the warehouse code base: uniformcost_search         *)
(* (src/src/ucs_pathfinder.py) and astar_search                            *)
(* (src/src/astar_pathfinder.py), run against a grid environment that      *)
(* offers MOVE_DELTAS and _is_wall.                                        *)
(*                                                                         *)
(* One behaviour is a short sequence of search calls on one environment    *)
(* with one start, goal and max_expansions.  Every iteration of a search's *)
(* while loop is one action.                                               *)
(*                                                                         *)
(* Optional values (None / a value) are sequences of length 0 / 1.         *)
(* time_ms, a wall-clock reading, is left out of the statistics.           *)
(***************************************************************************)
EXTENDS Integers, Sequences, FiniteSets, TLC

VARIABLES
    rows, cols, walls,      \* the environment: grid size and obstacle cells
    start, goal,            \* arguments of every call of the behaviour
    max_expansions,         \* argument of every call of the behaviour
    keep_path,              \* whether the caller keeps earlier paths or only statistics
    calls,                  \* the calls still to be made, in order
    pc,                     \* "idle", "loop" (inside the while loop) or "returned"
    fn,                     \* the function being (or last) executed
    frontier,               \* local: the heap, a set of entries
    explored,               \* local: dict position -> cost (UCS), set of positions (A*)
    frontier_peak,          \* local
    nodes_expanded,         \* local
    ret,                    \* the returned tuple <<path, stats>>, <<>> before the return
    earlier,                \* what the caller kept of the calls before this one
    record_pushes,          \* whether the history push_order is recorded
    heuristic_arg,          \* argument of every astar_search call: the name of the heuristic
    push_order,             \* history: the entries of the heap in the order of their heappush
    obs,                    \* the observation dict given to the last select_action call
    recent,                 \* GreedyManhattanAgent.recent, a deque with maxlen
    escape_counter,         \* GreedyManhattanAgent.escape_counter
    last_action,            \* what the last select_action call returned, None before it
    branch,                 \* the return statement the last select_action call left by
    initial,                \* argument: the positions of the initial RackLayout
    max_iters,              \* argument
    cold_after,             \* the number of iterations after which T < 1e-6 (from T0, alpha)
    current,                \* local: the positions of the current layout
    best,                   \* local of simulated_annealing: the positions of the best layout
    history,                \* local: the objective values recorded
    it,                     \* local: the iterations done
    least_seen,             \* history: the least objective among the layouts that
                            \* simulated_annealing's current has been
    loop_history_size,      \* GreedyManhattanAgent.loop_history_size
    side,                   \* the locals of the two searches run side by side, <<>> before
    parent1, parent2,       \* arguments of crossover: the positions of the two parents
    child                   \* the positions of the layout crossover returned, <<>> before

vars == <<rows, cols, walls, start, goal, max_expansions, keep_path, record_pushes, heuristic_arg,
          calls, pc, fn,
          frontier, explored, frontier_peak, nodes_expanded, ret, earlier, push_order,
          obs, recent, escape_counter, last_action, branch,
          initial, max_iters, cold_after, current, best, history, it, least_seen,
          loop_history_size, side, parent1, parent2, child>>

\* The variables of the search functions, of the agents.
searchVars == <<start, goal, max_expansions, keep_path, record_pushes, heuristic_arg,
          calls, pc, fn,
                frontier, explored, frontier_peak, nodes_expanded, ret, earlier, push_order>>

agentVars == <<obs, recent, escape_counter, last_action, branch, loop_history_size>>

layoutVars == <<initial, max_iters, cold_after, current, best, history, it, least_seen,
               parent1, parent2, child>>

\* What a step of a search function leaves alone.
notSearch == <<agentVars, layoutVars, side>>

inputs == <<rows, cols, walls, start, goal, max_expansions, keep_path, record_pushes, heuristic_arg>>

None == <<>>
Some(x) == <<x>>

-----------------------------------------------------------------------------
(* Bounds of the model *)

Rows == 2           \* grids of the general inputs are Rows x Cols
Cols == 3
MaxWalls == 2       \* at most this many obstacle cells
SmallCap == 2       \* a max_expansions small enough to be exceeded

DEFAULT_MAX_EXPANSIONS == 10000

-----------------------------------------------------------------------------
(* The environment collaborator *)

\* Mutant: the list of moves lacks "W".
ACTS_NoWest == <<"N", "E", "S">>

ACTS == <<"N", "E", "S", "W">>

MOVE_DELTAS == [N |-> <<-1, 0>>, E |-> <<0, 1>>, S |-> <<1, 0>>, W |-> <<0, -1>>]

is_wall(r, c) ==
    \/ r < 0 \/ r >= rows
    \/ c < 0 \/ c >= cols
    \/ <<r, c>> \in walls

-----------------------------------------------------------------------------
(* ucs_pathfinder.py *)

UcsNode(position, parent, action, g) ==
    [position |-> position, parent |-> parent, action |-> action, g |-> g]

\* Mutant: the root's own position is left out of the path.
RECURSIVE UcsPathNoRoot(_)
UcsPathNoRoot(node) ==
    IF node.parent = None
    THEN <<>>
    ELSE Append(UcsPathNoRoot(node.parent[1]), node.position)

RECURSIVE UcsPath(_)
UcsPath(node) ==
    IF node.parent = None
    THEN <<node.position>>
    ELSE Append(UcsPath(node.parent[1]), node.position)

\* Mutant: the cost is pushed negated, which turns the min-heap into a max-heap.
UcsEntryNegated(cost, node) == [prio |-> 0 - cost, node |-> node]

\* The heap entry (cost, id(node), node).  id(node) is an arbitrary integer,
\* distinct among live objects; it is not stored: see heappop.
UcsEntry(cost, node) == [prio |-> cost, node |-> node]

\* heapq.heappop returns the least (priority, id, node) tuple.  The ids are
\* whatever addresses the allocator hands out, so among the entries of least
\* priority any one can be the least tuple.  Distinct node objects are distinct
\* values here (the root is unique, a node is expanded at most once and its
\* children have distinct positions), so the heap is a set.
heappop(heap) == {e \in heap : \A o \in heap : e.prio <= o.prio}

\* The history is kept only in the behaviours that ask for it.
Record(pushes) == IF record_pushes THEN pushes ELSE <<>>

\* The history of pushes once entry e has been popped.
Without(pushes, e) == SelectSeq(pushes, LAMBDA x : x # e)

\* Mutant: no popped entry is taken for stale.
UcsStaleNever(node, expl) == FALSE

UcsStale(node, expl) ==
    node.position \in DOMAIN expl /\ expl[node.position] <= node.g

UcsCapHit(n, cap) == n > cap

\* Mutant: the row delta is added to the column too.
UcsChildRowDeltaTwice(node, act) ==
    LET d  == MOVE_DELTAS[act]
        nr == node.position[1] + d[1]
        nc == node.position[2] + d[1]
    IN  [position |-> <<nr, nc>>, parent |-> <<node>>, action |-> <<act>>, g |-> node.g + 1]

UcsChild(node, act) ==
    LET d  == MOVE_DELTAS[act]
        nr == node.position[1] + d[1]
        nc == node.position[2] + d[2]
    IN  UcsNode(<<nr, nc>>, Some(node), Some(act), node.g + 1)

\* The entries the for loop over the four moves pushes.
UcsPushes(node, expl) ==
    {UcsEntry(ch.g, ch) : ch \in
        {x \in {UcsChild(node, ACTS[i]) : i \in 1..Len(ACTS)} :
            /\ ~is_wall(x.position[1], x.position[2])
            /\ (x.position \notin DOMAIN expl \/ expl[x.position] > x.g)}}

\* The same entries as a list, in the order in which the for loop pushes them.
UcsPushList(node, expl) ==
    SelectSeq([i \in 1..Len(ACTS) |-> UcsEntry(node.g + 1, UcsChild(node, ACTS[i]))],
              LAMBDA x : x \in UcsPushes(node, expl))

Stats(n, length, peak) ==
    [nodes_expanded |-> n, path_length |-> length, frontier_peak |-> peak]

\* Mutant: the latest of the two is kept, not the larger.
MaxLatest(a, b) == b

Max(a, b) == IF a >= b THEN a ELSE b

DictPut(d, k, v) == [x \in DOMAIN d \cup {k} |-> IF x = k THEN v ELSE d[x]]

\* What the caller keeps of a finished call when it makes the next one.
Kept ==
    IF pc # "returned" THEN earlier
    ELSE IF keep_path
         THEN Append(earlier, [fn |-> fn, path |-> ret[1], stats |-> ret[2]])
         ELSE Append(earlier, [fn |-> fn, stats |-> ret[2]])

CallUcs ==
    /\ pc # "loop"
    /\ calls # <<>>
    /\ Head(calls) = "ucs"
    /\ calls' = Tail(calls)
    /\ earlier' = Kept
    /\ fn' = "ucs"
    /\ pc' = "loop"
    /\ ret' = <<>>
    /\ frontier' = {UcsEntry(0, UcsNode(start, None, None, 0))}
    /\ push_order' = Record(<<UcsEntry(0, UcsNode(start, None, None, 0))>>)
    /\ explored' = <<>>
    /\ frontier_peak' = 1
    /\ nodes_expanded' = 0
    /\ UNCHANGED <<inputs, notSearch>>

\* Mutant: the while loop does not test the frontier, so an empty one ends nothing.
UcsExhaustedNoReturn ==
    /\ pc = "loop" /\ fn = "ucs"
    /\ frontier = {}
    /\ UNCHANGED vars

UcsExhausted ==
    /\ pc = "loop" /\ fn = "ucs"
    /\ frontier = {}
    /\ ret' = <<None, Stats(nodes_expanded, None, frontier_peak)>>
    /\ pc' = "returned"
    /\ UNCHANGED <<inputs, notSearch, calls, fn, frontier, explored, frontier_peak,
                   nodes_expanded, earlier, push_order>>

UcsGoal ==
    /\ pc = "loop" /\ fn = "ucs"
    /\ \E e \in heappop(frontier) :
        /\ e.node.position = goal
        /\ frontier' = frontier \ {e}
        /\ push_order' = Record(Without(push_order, e))
        /\ ret' = <<Some(UcsPath(e.node)),
                    Stats(nodes_expanded, Some(Len(UcsPath(e.node))), frontier_peak)>>
    /\ pc' = "returned"
    /\ UNCHANGED <<inputs, notSearch, calls, fn, explored, frontier_peak, nodes_expanded, earlier>>

UcsSkip ==
    /\ pc = "loop" /\ fn = "ucs"
    /\ \E e \in heappop(frontier) :
        /\ e.node.position # goal
        /\ UcsStale(e.node, explored)
        /\ frontier' = frontier \ {e}
        /\ push_order' = Record(Without(push_order, e))
    /\ UNCHANGED <<inputs, notSearch, calls, pc, fn, explored, frontier_peak, nodes_expanded,
                   ret, earlier>>

UcsBreak ==
    /\ pc = "loop" /\ fn = "ucs"
    /\ \E e \in heappop(frontier) :
        /\ e.node.position # goal
        /\ ~UcsStale(e.node, explored)
        /\ UcsCapHit(nodes_expanded + 1, max_expansions)
        /\ frontier' = frontier \ {e}
        /\ push_order' = Record(Without(push_order, e))
        /\ explored' = DictPut(explored, e.node.position, e.node.g)
    /\ nodes_expanded' = nodes_expanded + 1
    /\ ret' = <<None, Stats(nodes_expanded + 1, None, frontier_peak)>>
    /\ pc' = "returned"
    /\ UNCHANGED <<inputs, notSearch, calls, fn, frontier_peak, earlier>>

UcsExpand ==
    /\ pc = "loop" /\ fn = "ucs"
    /\ \E e \in heappop(frontier) :
        /\ e.node.position # goal
        /\ ~UcsStale(e.node, explored)
        /\ ~UcsCapHit(nodes_expanded + 1, max_expansions)
        /\ explored' = DictPut(explored, e.node.position, e.node.g)
        /\ frontier' = (frontier \ {e}) \cup UcsPushes(e.node, explored')
        /\ push_order' = Record(Without(push_order, e) \o UcsPushList(e.node, explored'))
    /\ nodes_expanded' = nodes_expanded + 1
    /\ frontier_peak' = Max(frontier_peak, Cardinality(frontier'))
    /\ UNCHANGED <<inputs, notSearch, calls, pc, fn, ret, earlier>>

-----------------------------------------------------------------------------
(* astar_pathfinder.py *)

AstarNode(position, parent, action, g, h) ==
    [position |-> position, parent |-> parent, action |-> action,
     g |-> g, h |-> h, f |-> g + h]

RECURSIVE AstarPath(_)
AstarPath(node) ==
    IF node.parent = None
    THEN <<node.position>>
    ELSE Append(AstarPath(node.parent[1]), node.position)

Abs(x) == IF x < 0 THEN 0 - x ELSE x

manhattan_distance(pos, g) == Abs(pos[1] - g[1]) + Abs(pos[2] - g[2])

\* Mutant: an inconsistent heuristic that grows towards the goal.
heuristic_reversed(pos, g) == 0 - (3 * manhattan_distance(pos, g))

\* A heuristic a caller can pass: always zero.
zero_heuristic(pos, g) == 0

\* A heuristic a caller can pass: the Manhattan distance on the cells of even
\* parity and zero on the others.  It never exceeds the Manhattan distance, so
\* it is admissible; it drops by more than one between adjacent cells, so it is
\* not consistent.
uneven_heuristic(pos, g) ==
    IF (pos[1] + pos[2]) % 2 = 0 THEN manhattan_distance(pos, g) ELSE 0

\* The heuristic argument; its default is manhattan_distance.
heuristic(pos, g) ==
    CASE heuristic_arg = "manhattan_distance" -> manhattan_distance(pos, g)
      [] heuristic_arg = "zero_heuristic"     -> zero_heuristic(pos, g)
      [] heuristic_arg = "uneven_heuristic"   -> uneven_heuristic(pos, g)

\* Mutant: the priority is pushed negated, which turns the min-heap into a max-heap.
AstarEntryNegated(node) == [prio |-> 0 - node.f, node |-> node]

AstarEntry(node) == [prio |-> node.f, node |-> node]

\* Mutant: the membership test on a popped node is missing.
AstarStaleNever(node, expl) == FALSE

AstarStale(node, expl) == node.position \in expl

\* Mutant: the cap is taken for hit one expansion early.
AstarCapHitAtCap(n, cap) == n >= cap

AstarCapHit(n, cap) == n > cap

\* Mutant: a child is given its parent's cost.
AstarChildSameCost(node, act) ==
    LET d  == MOVE_DELTAS[act]
        nr == node.position[1] + d[1]
        nc == node.position[2] + d[2]
    IN  [position |-> <<nr, nc>>, parent |-> <<node>>, action |-> <<act>>,
         g |-> node.g, h |-> heuristic(<<nr, nc>>, goal),
         f |-> node.g + heuristic(<<nr, nc>>, goal)]

AstarChild(node, act) ==
    LET d  == MOVE_DELTAS[act]
        nr == node.position[1] + d[1]
        nc == node.position[2] + d[2]
    IN  AstarNode(<<nr, nc>>, Some(node), Some(act), node.g + 1,
                  heuristic(<<nr, nc>>, goal))

AstarPushes(node, expl) ==
    {AstarEntry(ch) : ch \in
        {x \in {AstarChild(node, ACTS[i]) : i \in 1..Len(ACTS)} :
            /\ ~is_wall(x.position[1], x.position[2])
            /\ x.position \notin expl}}

AstarPushList(node, expl) ==
    SelectSeq([i \in 1..Len(ACTS) |-> AstarEntry(AstarChild(node, ACTS[i]))],
              LAMBDA x : x \in AstarPushes(node, expl))

\* Mutant: frontier_peak starts at 0.
CallAstarPeakZero ==
    /\ pc # "loop"
    /\ calls # <<>>
    /\ Head(calls) = "astar"
    /\ calls' = Tail(calls)
    /\ earlier' = Kept
    /\ fn' = "astar"
    /\ pc' = "loop"
    /\ ret' = <<>>
    /\ frontier' = {AstarEntry(AstarNode(start, None, None, 0, heuristic(start, goal)))}
    /\ push_order' = Record(<<AstarEntry(AstarNode(start, None, None, 0, heuristic(start, goal)))>>)
    /\ explored' = {}
    /\ frontier_peak' = 0
    /\ nodes_expanded' = 0
    /\ UNCHANGED <<inputs, notSearch>>

CallAstar ==
    /\ pc # "loop"
    /\ calls # <<>>
    /\ Head(calls) = "astar"
    /\ calls' = Tail(calls)
    /\ earlier' = Kept
    /\ fn' = "astar"
    /\ pc' = "loop"
    /\ ret' = <<>>
    /\ frontier' = {AstarEntry(AstarNode(start, None, None, 0, heuristic(start, goal)))}
    /\ push_order' = Record(<<AstarEntry(AstarNode(start, None, None, 0, heuristic(start, goal)))>>)
    /\ explored' = {}
    /\ frontier_peak' = 1
    /\ nodes_expanded' = 0
    /\ UNCHANGED <<inputs, notSearch>>

AstarExhausted ==
    /\ pc = "loop" /\ fn = "astar"
    /\ frontier = {}
    /\ ret' = <<None, Stats(nodes_expanded, None, frontier_peak)>>
    /\ pc' = "returned"
    /\ UNCHANGED <<inputs, notSearch, calls, fn, frontier, explored, frontier_peak,
                   nodes_expanded, earlier, push_order>>

AstarGoal ==
    /\ pc = "loop" /\ fn = "astar"
    /\ \E e \in heappop(frontier) :
        /\ e.node.position = goal
        /\ frontier' = frontier \ {e}
        /\ push_order' = Record(Without(push_order, e))
        /\ ret' = <<Some(AstarPath(e.node)),
                    Stats(nodes_expanded, Some(Len(AstarPath(e.node))), frontier_peak)>>
    /\ pc' = "returned"
    /\ UNCHANGED <<inputs, notSearch, calls, fn, explored, frontier_peak, nodes_expanded, earlier>>

\* Mutant: a discarded entry is counted as an expansion.
AstarSkipCounted ==
    /\ pc = "loop" /\ fn = "astar"
    /\ \E e \in heappop(frontier) :
        /\ e.node.position # goal
        /\ AstarStale(e.node, explored)
        /\ frontier' = frontier \ {e}
        /\ push_order' = Record(Without(push_order, e))
    /\ nodes_expanded' = nodes_expanded + 1
    /\ UNCHANGED <<inputs, notSearch, calls, pc, fn, explored, frontier_peak, ret, earlier>>

AstarSkip ==
    /\ pc = "loop" /\ fn = "astar"
    /\ \E e \in heappop(frontier) :
        /\ e.node.position # goal
        /\ AstarStale(e.node, explored)
        /\ frontier' = frontier \ {e}
        /\ push_order' = Record(Without(push_order, e))
    /\ UNCHANGED <<inputs, notSearch, calls, pc, fn, explored, frontier_peak, nodes_expanded,
                   ret, earlier>>

AstarBreak ==
    /\ pc = "loop" /\ fn = "astar"
    /\ \E e \in heappop(frontier) :
        /\ e.node.position # goal
        /\ ~AstarStale(e.node, explored)
        /\ AstarCapHit(nodes_expanded + 1, max_expansions)
        /\ frontier' = frontier \ {e}
        /\ push_order' = Record(Without(push_order, e))
        /\ explored' = explored \cup {e.node.position}
    /\ nodes_expanded' = nodes_expanded + 1
    /\ ret' = <<None, Stats(nodes_expanded + 1, None, frontier_peak)>>
    /\ pc' = "returned"
    /\ UNCHANGED <<inputs, notSearch, calls, fn, frontier_peak, earlier>>

AstarExpand ==
    /\ pc = "loop" /\ fn = "astar"
    /\ \E e \in heappop(frontier) :
        /\ e.node.position # goal
        /\ ~AstarStale(e.node, explored)
        /\ ~AstarCapHit(nodes_expanded + 1, max_expansions)
        /\ explored' = explored \cup {e.node.position}
        /\ frontier' = (frontier \ {e}) \cup AstarPushes(e.node, explored')
        /\ push_order' = Record(Without(push_order, e) \o AstarPushList(e.node, explored'))
    /\ nodes_expanded' = nodes_expanded + 1
    /\ frontier_peak' = Max(frontier_peak, Cardinality(frontier'))
    /\ UNCHANGED <<inputs, notSearch, calls, pc, fn, ret, earlier>>

-----------------------------------------------------------------------------
(* uniformcost_search and astar_search run side by side *)

\* The locals of one run are a record: pc, frontier, explored, frontier_peak,
\* nodes_expanded and ret as above, and as history pops (the number of pops),
\* popped (the position the last iteration popped, None before it) and pushed
\* (the positions the last iteration pushed, in order);
\* for uniformcost_search also reinserted: whether a child was ever pushed for
\* a position that was in explored (the branch explored[child_pos] > child_g).

PositionsOf(entries) == [i \in 1..Len(entries) |-> entries[i].node.position]

\* uniformcost_search up to the while loop.
UcsStart ==
    [pc |-> "loop", frontier |-> {UcsEntry(0, UcsNode(start, None, None, 0))},
     explored |-> <<>>, frontier_peak |-> 1, nodes_expanded |-> 0, ret |-> <<>>,
     pops |-> 0, popped |-> None, pushed |-> <<>>, reinserted |-> FALSE]

\* astar_search up to the while loop.
AstarStart ==
    [pc |-> "loop",
     frontier |-> {AstarEntry(AstarNode(start, None, None, 0, heuristic(start, goal)))},
     explored |-> {}, frontier_peak |-> 1, nodes_expanded |-> 0, ret |-> <<>>,
     pops |-> 0, popped |-> None, pushed |-> <<>>]

\* The while test of uniformcost_search fails: the return after the loop.
UcsLeave(loc) ==
    [loc EXCEPT !.pc = "returned",
                !.ret = <<None, Stats(loc.nodes_expanded, None, loc.frontier_peak)>>,
                !.popped = None, !.pushed = <<>>]

\* One iteration of the while loop of uniformcost_search that pops entry e.
UcsIterate(loc, e) ==
    LET node == e.node
        rest == loc.frontier \ {e}
        seen == Some(node.position)
        expl == DictPut(loc.explored, node.position, node.g)
        n    == loc.nodes_expanded + 1
        more == rest \cup UcsPushes(node, expl)
    IN  IF node.position = goal
        THEN [loc EXCEPT !.pc = "returned", !.frontier = rest, !.popped = seen, !.pops = loc.pops + 1, !.pushed = <<>>,
                         !.ret = <<Some(UcsPath(node)),
                                   Stats(loc.nodes_expanded, Some(Len(UcsPath(node))),
                                         loc.frontier_peak)>>]
        ELSE IF UcsStale(node, loc.explored)
        THEN [loc EXCEPT !.frontier = rest, !.popped = seen, !.pops = loc.pops + 1, !.pushed = <<>>]
        ELSE IF UcsCapHit(n, max_expansions)
        THEN [loc EXCEPT !.pc = "returned", !.frontier = rest, !.popped = seen, !.pops = loc.pops + 1, !.pushed = <<>>,
                         !.explored = expl, !.nodes_expanded = n,
                         !.ret = <<None, Stats(n, None, loc.frontier_peak)>>]
        ELSE [loc EXCEPT !.frontier = more, !.popped = seen, !.pops = loc.pops + 1,
                         !.pushed = PositionsOf(UcsPushList(node, expl)),
                         !.explored = expl, !.nodes_expanded = n,
                         !.frontier_peak = Max(loc.frontier_peak, Cardinality(more)),
                         !.reinserted = loc.reinserted
                                          \/ \E x \in UcsPushes(node, expl) :
                                                x.node.position \in DOMAIN expl]

\* The while test of astar_search fails: the return after the loop.
AstarLeave(loc) ==
    [loc EXCEPT !.pc = "returned",
                !.ret = <<None, Stats(loc.nodes_expanded, None, loc.frontier_peak)>>,
                !.popped = None, !.pushed = <<>>]

\* One iteration of the while loop of astar_search that pops entry e.
AstarIterate(loc, e) ==
    LET node == e.node
        rest == loc.frontier \ {e}
        seen == Some(node.position)
        expl == loc.explored \cup {node.position}
        n    == loc.nodes_expanded + 1
        more == rest \cup AstarPushes(node, expl)
    IN  IF node.position = goal
        THEN [loc EXCEPT !.pc = "returned", !.frontier = rest, !.popped = seen, !.pops = loc.pops + 1, !.pushed = <<>>,
                         !.ret = <<Some(AstarPath(node)),
                                   Stats(loc.nodes_expanded, Some(Len(AstarPath(node))),
                                         loc.frontier_peak)>>]
        ELSE IF AstarStale(node, loc.explored)
        THEN [loc EXCEPT !.frontier = rest, !.popped = seen, !.pops = loc.pops + 1, !.pushed = <<>>]
        ELSE IF AstarCapHit(n, max_expansions)
        THEN [loc EXCEPT !.pc = "returned", !.frontier = rest, !.popped = seen, !.pops = loc.pops + 1, !.pushed = <<>>,
                         !.explored = expl, !.nodes_expanded = n,
                         !.ret = <<None, Stats(n, None, loc.frontier_peak)>>]
        ELSE [loc EXCEPT !.frontier = more, !.popped = seen, !.pops = loc.pops + 1,
                         !.pushed = PositionsOf(AstarPushList(node, expl)),
                         !.explored = expl, !.nodes_expanded = n,
                         !.frontier_peak = Max(loc.frontier_peak, Cardinality(more))]

\* What the next heappop of a run can give: None if the run has returned or its
\* frontier is empty.
PopChoices(loc) ==
    IF loc.pc # "loop" \/ loc.frontier = {} THEN {None}
    ELSE {Some(e) : e \in heappop(loc.frontier)}

\* The same tie-break choice in the astar_search run as choice c of the
\* uniformcost_search run: the ids order the nodes of the two runs alike, so
\* the entry popped is the one for the node made by the same moves, if it is
\* among the least; if it is not, the runs have parted and any least entry
\* may be popped.
TwinChoices(c, loc) ==
    LET twins == {t \in PopChoices(loc) :
                     t # None /\ c # None /\ AstarPath(t[1].node) = UcsPath(c[1].node)}
    IN  IF twins # {} THEN twins ELSE PopChoices(loc)

UcsAdvance(loc, c) ==
    IF loc.pc # "loop" THEN loc
    ELSE IF c = None THEN UcsLeave(loc)
    ELSE UcsIterate(loc, c[1])

AstarAdvance(loc, c) ==
    IF loc.pc # "loop" THEN loc
    ELSE IF c = None THEN AstarLeave(loc)
    ELSE AstarIterate(loc, c[1])

sideOthers == <<inputs, agentVars, layoutVars, calls, pc, frontier, explored, frontier_peak,
                nodes_expanded, ret, earlier, push_order>>

\* Both searches are called on the same arguments.
SideCall ==
    /\ side = <<>>
    /\ fn = "none"
    /\ fn' = "side_by_side"
    /\ side' = [ucs |-> UcsStart, astar |-> AstarStart]
    /\ UNCHANGED sideOthers

\* Each run that has not returned does one iteration of its while loop.
SideStep ==
    /\ side # <<>>
    /\ side.ucs.pc = "loop" \/ side.astar.pc = "loop"
    /\ \E c \in PopChoices(side.ucs) :
       \E t \in TwinChoices(c, side.astar) :
          side' = [ucs |-> UcsAdvance(side.ucs, c), astar |-> AstarAdvance(side.astar, t)]
    /\ UNCHANGED <<sideOthers, fn>>

-----------------------------------------------------------------------------
(* Inputs and specifications *)

Cells(nr, nc) == (0..(nr - 1)) \X (0..(nc - 1))

WallSets(nr, nc) == {w \in SUBSET Cells(nr, nc) : Cardinality(w) <= MaxWalls}

Caps == {0, SmallCap, DEFAULT_MAX_EXPANSIONS}

\* Any environment of the bounded family, any passable goal, any cap, and any
\* passable start of the top row (flipping a grid upside down maps the starts
\* of the bottom row there: the searches treat the four moves alike).
GeneralInput ==
    /\ rows = Rows
    /\ cols = Cols
    /\ walls \in WallSets(Rows, Cols)
    /\ start \in Cells(Rows, Cols) \ walls
    /\ start[1] = 0
    /\ goal \in Cells(Rows, Cols) \ walls
    /\ max_expansions \in Caps

NoCallYet ==
    /\ pc = "idle"
    /\ fn = "none"
    /\ frontier = {}
    /\ explored = {}
    /\ frontier_peak = 0
    /\ nodes_expanded = 0
    /\ ret = <<>>
    /\ earlier = <<>>
    /\ push_order = <<>>
    /\ side = <<>>

\* No agent is in use.
NoAgent ==
    /\ obs = <<>>
    /\ recent = <<>>
    /\ escape_counter = 0
    /\ last_action = None
    /\ branch = "none"
    /\ loop_history_size = 0

\* No local search is in use.
NoLayout ==
    /\ initial = <<>>
    /\ max_iters = 0
    /\ cold_after = 0
    /\ current = <<>>
    /\ best = <<>>
    /\ history = <<>>
    /\ it = 0
    /\ least_seen = 0
    /\ parent1 = <<>>
    /\ parent2 = <<>>
    /\ child = <<>>

\* Only the search functions are in use.
OnlySearch == NoAgent /\ NoLayout

\* One call of either search.
Init ==
    /\ GeneralInput
    /\ keep_path = TRUE
    /\ record_pushes = FALSE
    /\ heuristic_arg = "manhattan_distance"
    /\ calls \in {<<"ucs">>, <<"astar">>}
    /\ NoCallYet
    /\ OnlySearch

Next ==
    \/ CallUcs
    \/ UcsExhausted
    \/ UcsGoal
    \/ UcsSkip
    \/ UcsBreak
    \/ UcsExpand
    \/ CallAstar
    \/ AstarExhausted
    \/ AstarGoal
    \/ AstarSkip
    \/ AstarBreak
    \/ AstarExpand

Spec == Init /\ [][Next]_vars

\* uniformcost_search, then astar_search on the same arguments; the caller keeps
\* the statistics of the first call.
InitCompare ==
    /\ GeneralInput
    /\ keep_path = FALSE
    /\ record_pushes = FALSE
    /\ heuristic_arg = "manhattan_distance"
    /\ calls = <<"ucs", "astar">>
    /\ NoCallYet
    /\ OnlySearch

SpecCompare == InitCompare /\ [][Next]_vars

\* The heuristics of the model that are admissible without being the default.
OtherAdmissible == {"zero_heuristic", "uneven_heuristic"}

\* uniformcost_search, then astar_search with another admissible heuristic on
\* the same arguments; the caller keeps the statistics of the first call.
InitHeuristic ==
    /\ GeneralInput
    /\ keep_path = FALSE
    /\ record_pushes = FALSE
    /\ heuristic_arg \in OtherAdmissible
    /\ calls = <<"ucs", "astar">>
    /\ NoCallYet
    /\ OnlySearch

SpecHeuristic == InitHeuristic /\ [][Next]_vars

\* uniformcost_search and astar_search with the always-zero heuristic, side by
\* side on the same arguments.  The starts are those of the left half of the
\* top row (mirroring a grid left to right maps the other starts there).
InitSide ==
    /\ GeneralInput
    /\ keep_path = FALSE
    /\ record_pushes = FALSE
    /\ heuristic_arg = "zero_heuristic"
    /\ start[2] * 2 < cols
    /\ calls = <<>>
    /\ NoCallYet
    /\ OnlySearch

NextSide ==
    \/ SideCall
    \/ SideStep

SpecSide == InitSide /\ [][NextSide]_vars

\* The same function twice on the same arguments; the caller keeps the first
\* call's path and statistics.
InitRepeat ==
    /\ GeneralInput
    /\ keep_path = TRUE
    /\ record_pushes = FALSE
    /\ heuristic_arg = "manhattan_distance"
    /\ calls \in {<<"ucs", "ucs">>, <<"astar", "astar">>}
    /\ NoCallYet
    /\ OnlySearch

SpecRepeat == InitRepeat /\ [][Next]_vars

\* One call of either search, with the order of the pushes recorded.
InitOrder ==
    /\ GeneralInput
    /\ keep_path = TRUE
    /\ record_pushes = TRUE
    /\ heuristic_arg = "manhattan_distance"
    /\ calls \in {<<"ucs">>, <<"astar">>}
    /\ NoCallYet
    /\ OnlySearch

SpecOrder == InitOrder /\ [][Next]_vars

\* One call of either search that is not left unfinished: the body of the while
\* loop has no blocking operation, so a call that can take a step takes it.
\* The starts are those of the left half of the top row (mirroring a grid left
\* to right maps the other starts there).
InitLive ==
    /\ Init
    /\ start[2] * 2 < cols

SpecLive == InitLive /\ [][Next]_vars /\ WF_vars(Next)

-----------------------------------------------------------------------------
(* warehouse_agent_reflex.py *)

Outcome(act, site) == [action |-> act, branch |-> site]

ReflexIsValidMove(act, pos) ==
    LET d  == MOVE_DELTAS[act]
        nr == pos[1] + d[1]
        nc == pos[2] + d[2]
    IN  ~is_wall(nr, nc)

\* rng.choice(valid) is any member of valid.
ReflexRandomValidMove(pos) ==
    LET valid == {ACTS[i] : i \in {j \in 1..Len(ACTS) : ReflexIsValidMove(ACTS[j], pos)}}
    IN  IF valid = {} THEN {"WAIT"} ELSE valid

\* Mutant: the pickup rule does not look at has_item.
ReflexAtPickupAnyLoad(o) == o.pickup_pos = Some(o.robot_pos)

ReflexAtPickup(o) == ~o.has_item /\ o.pickup_pos = Some(o.robot_pos)

ReflexAtDropoff(o) == o.has_item /\ o.dropoff_pos = Some(o.robot_pos)

\* Mutant: the vertical rule is applied whatever the two distances are.
ReflexPreferredVertical(dr, dc) == IF dr < 0 THEN "N" ELSE "S"

ReflexPreferred(dr, dc) ==
    IF Abs(dr) >= Abs(dc)
    THEN (IF dr < 0 THEN "N" ELSE "S")
    ELSE (IF dc > 0 THEN "E" ELSE "W")

\* The valid moves after which the robot is nearer to target.
ReflexCandidates(pos, target) ==
    {ACTS[i] : i \in {j \in 1..Len(ACTS) :
        /\ ReflexIsValidMove(ACTS[j], pos)
        /\ LET d        == MOVE_DELTAS[ACTS[j]]
               nr       == pos[1] + d[1]
               nc       == pos[2] + d[2]
               d_after  == Abs(nr - target[1]) + Abs(nc - target[2])
               d_before == Abs(pos[1] - target[1]) + Abs(pos[2] - target[2])
           IN  d_after < d_before}}

\* ReflexAgent.select_action: the outcomes it can return on observation o, each
\* with the return statement it leaves by.
ReflexSelectAction(o) ==
    LET pos    == o.robot_pos
        target == IF o.has_item THEN o.dropoff_pos ELSE o.pickup_pos
    IN  IF ReflexAtPickup(o) THEN {Outcome("PICK", "pick")}
        ELSE IF ReflexAtDropoff(o) THEN {Outcome("DROP", "drop")}
        ELSE IF target = None
             THEN {Outcome(a, "no_target") : a \in ReflexRandomValidMove(pos)}
        ELSE LET dr         == target[1][1] - pos[1]
                 dc         == target[1][2] - pos[2]
                 preferred  == ReflexPreferred(dr, dc)
                 candidates == ReflexCandidates(pos, target[1])
             IN  IF ReflexIsValidMove(preferred, pos)
                 THEN {Outcome(preferred, "preferred")}
                 ELSE IF candidates # {}
                      THEN {Outcome(a, "candidate") : a \in candidates}
                      ELSE {Outcome(a, "fallback") : a \in ReflexRandomValidMove(pos)}

\* The observations the environment can hand out: the robot on any passable
\* cell, with or without an item; the pickup and dropoff tiles stay where they are.
Observations ==
    {[obs EXCEPT !.robot_pos = p, !.has_item = h] :
        p \in Cells(rows, cols) \ walls, h \in BOOLEAN}

\* One call of ReflexAgent.select_action(obs, env) on a fresh observation.
ReflexSelect ==
    /\ fn \in {"none", "reflex"}
    /\ \E o \in Observations :
        /\ obs' = o
        /\ \E out \in ReflexSelectAction(o) :
            /\ last_action' = Some(out.action)
            /\ branch' = out.branch
    /\ fn' = "reflex"
    /\ UNCHANGED <<rows, cols, walls, start, goal, max_expansions, keep_path, record_pushes, heuristic_arg,
                   calls, pc, frontier, explored, frontier_peak, nodes_expanded, ret,
                   earlier, push_order, recent, escape_counter, loop_history_size, side,
                   layoutVars>>

AgentRows == 2          \* the agents' grids are AgentRows x AgentCols
AgentCols == 2
AgentMaxWalls == 2      \* with at most this many obstacle cells

\* No search function is in use.
NoSearch ==
    /\ start = <<0, 0>>
    /\ goal = <<0, 0>>
    /\ max_expansions = 0
    /\ keep_path = FALSE
    /\ record_pushes = FALSE
    /\ heuristic_arg = "manhattan_distance"
    /\ calls = <<>>
    /\ NoCallYet
    /\ NoLayout

OptionalCells(nr, nc) == {None} \cup {Some(p) : p \in Cells(nr, nc)}

\* Any environment of the bounded family with at least one passable cell, the
\* pickup and dropoff tiles anywhere or absent, and the first observation.
AgentInput ==
    /\ rows = AgentRows
    /\ cols = AgentCols
    /\ walls \in {w \in SUBSET Cells(AgentRows, AgentCols) : Cardinality(w) <= AgentMaxWalls}
    /\ walls # Cells(AgentRows, AgentCols)
    /\ obs \in [robot_pos : Cells(AgentRows, AgentCols) \ walls,
                has_item : BOOLEAN,
                pickup_pos : OptionalCells(AgentRows, AgentCols),
                dropoff_pos : OptionalCells(AgentRows, AgentCols)]

InitReflex ==
    /\ AgentInput
    /\ NoSearch
    /\ recent = <<>>
    /\ escape_counter = 0
    /\ last_action = None
    /\ branch = "none"
    /\ loop_history_size = 0

NextReflex == ReflexSelect

SpecReflex == InitReflex /\ [][NextReflex]_vars

-----------------------------------------------------------------------------
(* warehouse_agent_greedy.py *)

LoopHistorySize == 1    \* the loop_history_size the agent is constructed with
EscapeSteps == 1        \* the escape_steps the agent is constructed with

\* Mutant: the deque has no maxlen.
DequeAppendUnbounded(q, x, size) == Append(q, x)

\* deque(maxlen=size).append(x): a full deque drops its oldest entry.
DequeAppend(q, x, size) ==
    IF size = 0 THEN q
    ELSE IF Len(q) >= size THEN Append(Tail(q), x)
    ELSE Append(q, x)

GreedyDist(p, q) == Abs(p[1] - q[1]) + Abs(p[2] - q[2])

\* The for loop over the four moves that collects best, from move number i on.
RECURSIVE GreedyScan(_, _, _, _, _)
GreedyScan(i, pos, target, best_d, best_actions) ==
    IF i > Len(ACTS) THEN best_actions
    ELSE LET d0 == MOVE_DELTAS[ACTS[i]]
             nr == pos[1] + d0[1]
             nc == pos[2] + d0[2]
             d  == GreedyDist(<<nr, nc>>, target)
         IN  IF is_wall(nr, nc) THEN GreedyScan(i + 1, pos, target, best_d, best_actions)
             ELSE IF d < best_d THEN GreedyScan(i + 1, pos, target, d, <<ACTS[i]>>)
             ELSE IF d = best_d /\ best_actions # <<>>
                  THEN GreedyScan(i + 1, pos, target, best_d, Append(best_actions, ACTS[i]))
             ELSE GreedyScan(i + 1, pos, target, best_d, best_actions)

GreedyBest(pos, target) == GreedyScan(1, pos, target, GreedyDist(pos, target), <<>>)

\* Mutant: a wall is not looked for, every move counts as valid.
GreedyRandomAnyMove(pos) == {ACTS[i] : i \in 1..Len(ACTS)}

\* rng.choice(valid) is any member of valid.
GreedyRandomValidMove(pos) ==
    LET valid == {ACTS[i] : i \in {j \in 1..Len(ACTS) :
                     ~is_wall(pos[1] + MOVE_DELTAS[ACTS[j]][1], pos[2] + MOVE_DELTAS[ACTS[j]][2])}}
    IN  IF valid = {} THEN {"WAIT"} ELSE valid

\* "if target is not None: ... if best: return rng.choice(best)" and the
\* fallback "return self._random_valid_move(pos, env)".
GreedyMoves(pos, target) ==
    IF target # None /\ GreedyBest(pos, target[1]) # <<>>
    THEN {GreedyBest(pos, target[1])[i] : i \in 1..Len(GreedyBest(pos, target[1]))}
    ELSE GreedyRandomValidMove(pos)

GreedyOutcome(act, site, rec, counter) ==
    [action |-> act, branch |-> site, recent |-> rec, escape_counter |-> counter]

\* Mutant: loop detection leaves escape_counter alone.
GreedyLoopCounterKept(counter) == counter

\* Line 101: self.escape_counter = self.escape_steps.
GreedyLoopCounter(counter) == EscapeSteps

\* GreedyManhattanAgent.select_action: the outcomes of a call on observation o
\* by an agent whose fields are rec and counter.
GreedySelectAction(o, rec, counter) ==
    LET pos     == o.robot_pos
        has     == o.has_item
        pickup  == o.pickup_pos
        dropoff == o.dropoff_pos
        goal_of == IF has THEN dropoff ELSE pickup
    IN  IF ~has /\ pickup = Some(pos)
        THEN {GreedyOutcome("PICK", "pick", rec, counter)}
        ELSE IF has /\ dropoff = Some(pos)
        THEN {GreedyOutcome("DROP", "drop", rec, counter)}
        ELSE IF ~has /\ dropoff = Some(pos)
        THEN {GreedyOutcome(a, "off_dropoff", rec, counter) : a \in GreedyMoves(pos, pickup)}
        ELSE IF counter > 0
        THEN {GreedyOutcome(a, "escaping", rec, counter - 1) : a \in GreedyMoves(pos, goal_of)}
        ELSE IF \E i \in 1..Len(rec) : rec[i] = pos
        THEN {GreedyOutcome(a, "loop", rec, GreedyLoopCounter(counter)) :
                 a \in GreedyMoves(pos, goal_of)}
        ELSE {GreedyOutcome(a, "normal", DequeAppend(rec, pos, loop_history_size), counter) :
                 a \in GreedyMoves(pos, goal_of)}

\* One call of GreedyManhattanAgent.select_action(obs, env) on a fresh observation.
GreedySelect ==
    /\ fn \in {"none", "greedy"}
    /\ \E o \in Observations :
        /\ obs' = o
        /\ \E out \in GreedySelectAction(o, recent, escape_counter) :
            /\ last_action' = Some(out.action)
            /\ branch' = out.branch
            /\ recent' = out.recent
            /\ escape_counter' = out.escape_counter
    /\ fn' = "greedy"
    /\ UNCHANGED <<rows, cols, walls, start, goal, max_expansions, keep_path, record_pushes, heuristic_arg,
                   calls, pc, frontier, explored, frontier_peak, nodes_expanded, ret,
                   earlier, push_order, loop_history_size, side, layoutVars>>

\* GreedyManhattanAgent.reset(), which returns None.
GreedyReset ==
    /\ fn \in {"none", "greedy"}
    /\ recent' = <<>>
    /\ escape_counter' = 0
    /\ last_action' = None
    /\ branch' = "reset"
    /\ fn' = "greedy"
    /\ UNCHANGED <<rows, cols, walls, start, goal, max_expansions, keep_path, record_pushes, heuristic_arg,
                   calls, pc, frontier, explored, frontier_peak, nodes_expanded, ret,
                   earlier, push_order, obs, loop_history_size, side, layoutVars>>

\* An open grid of any size up to AgentRows x AgentCols (its border is the only
\* wall), the pickup tile absent or in the top left corner, the dropoff tile
\* absent or in the top left or bottom right corner, and the first observation.
GreedyInput ==
    /\ rows \in 1..AgentRows
    /\ cols \in 1..AgentCols
    /\ walls = {}
    /\ obs \in [robot_pos : Cells(rows, cols),
                has_item : BOOLEAN,
                pickup_pos : {None, Some(<<0, 0>>)},
                dropoff_pos : {None, Some(<<0, 0>>), Some(<<rows - 1, cols - 1>>)}]

\* A freshly constructed agent.
InitGreedy ==
    /\ GreedyInput
    /\ NoSearch
    /\ recent = <<>>
    /\ escape_counter = 0
    /\ last_action = None
    /\ branch = "none"
    /\ loop_history_size = LoopHistorySize

NextGreedy ==
    \/ GreedySelect
    \/ GreedyReset

SpecGreedy == InitGreedy /\ [][NextGreedy]_vars

\* An agent constructed with a longer history, on an open grid with the pickup
\* tile in the top left corner and the dropoff tile in the bottom right one.
InitGreedyLong ==
    /\ rows \in 1..AgentRows
    /\ cols \in 1..AgentCols
    /\ walls = {}
    /\ obs \in [robot_pos : Cells(rows, cols),
                has_item : BOOLEAN,
                pickup_pos : {Some(<<0, 0>>)},
                dropoff_pos : {Some(<<rows - 1, cols - 1>>)}]
    /\ NoSearch
    /\ recent = <<>>
    /\ escape_counter = 0
    /\ last_action = None
    /\ branch = "none"
    /\ loop_history_size = LoopHistorySize + 1

SpecGreedyLong == InitGreedyLong /\ [][NextGreedy]_vars

-----------------------------------------------------------------------------
(* rack_layout.py, hill_climbing.py, simulated_annealing.py *)

GridSize == 2           \* RackLayout.grid_size
NumRacks == 2           \* the number of positions of a layout
MaxIters == 2           \* max_iters is at most this

LAM == 2
CONGESTION_BELOW == 5

\* RackLayout.depot of every layout of the model.
depot == <<0, 0>>

manhattan(a, b) == Abs(a[1] - b[1]) + Abs(a[2] - b[2])

RECURSIVE SumSeq(_)
SumSeq(s) == IF s = <<>> THEN 0 ELSE Head(s) + SumSeq(Tail(s))

\* RackLayout.objective(), times len(positions): the code computes the float
\* sum(distances) / len(distances) + lam * congestion; the layouts compared in
\* one run have the same number of racks, so their objectives compare as these
\* integers do.
objective(positions) ==
    LET distances  == [i \in 1..Len(positions) |-> manhattan(depot, positions[i])]
        congestion == Cardinality({i \in 1..Len(positions) : distances[i] < CONGESTION_BELOW})
    IN  SumSeq(distances) + LAM * congestion * Len(positions)

STEPS == <<(<<-1, 0>>), (<<1, 0>>), (<<0, -1>>), (<<0, 1>>)>>

\* Mutant: the upper bounds of the grid are not tested.
InGridNoUpperBound(p) == 0 <= p[1] /\ 0 <= p[2]

InGrid(p) == 0 <= p[1] /\ p[1] < GridSize /\ 0 <= p[2] /\ p[2] < GridSize

Occupied(positions, p) == \E i \in 1..Len(positions) : positions[i] = p

\* RackLayout.neighbors(): the list of neighbour layouts, rack by rack and
\* step by step as the two for loops produce them.
neighbors(positions) ==
    LET n       == Len(positions)
        rack(k) == ((k - 1) \div Len(STEPS)) + 1
        step(k) == STEPS[((k - 1) % Len(STEPS)) + 1]
        to(k)   == <<positions[rack(k)][1] + step(k)[1], positions[rack(k)][2] + step(k)[2]>>
        kept    == SelectSeq([k \in 1..(n * Len(STEPS)) |-> k],
                             LAMBDA k : InGrid(to(k)) /\ ~Occupied(positions, to(k)))
    IN  [j \in 1..Len(kept) |-> [positions EXCEPT ![rack(kept[j])] = to(kept[j])]]

\* RackLayout.mutate(): the layouts random.randrange and random.choice can give.
mutate(positions) ==
    LET all_cells == (0..(GridSize - 1)) \X (0..(GridSize - 1))
        choices   == {c \in all_cells : ~Occupied(positions, c) /\ c # depot}
    IN  IF choices = {} THEN {positions}
        ELSE {[positions EXCEPT ![i] = c] : i \in 1..Len(positions), c \in choices}

\* The least objective of a chain that was at least_seen and is now at x.
Min(a, b) == IF a <= b THEN a ELSE b

\* min(neighs, key=lambda s: s.objective()): the first of the least ones.
MinByObjective(neighs) ==
    neighs[CHOOSE j \in 1..Len(neighs) :
        /\ \A k \in 1..Len(neighs) : objective(neighs[j]) <= objective(neighs[k])
        /\ \A k \in 1..(j - 1) : objective(neighs[k]) > objective(neighs[j])]

\* Mutant: the best neighbour is taken whether or not it is better.
HcImprovesAlways(candidate, positions) == TRUE

HcImproves(candidate, positions) == objective(candidate) < objective(positions)

layoutOthers == <<rows, cols, walls, start, goal, max_expansions, keep_path, record_pushes, heuristic_arg,
                  frontier, explored, frontier_peak, nodes_expanded, earlier, push_order,
                  agentVars, side, parent1, parent2, child>>

\* steepest_ascent(initial, max_iters), up to the for loop.
CallSteepestAscent ==
    /\ pc = "idle"
    /\ calls # <<>>
    /\ Head(calls) = "steepest_ascent"
    /\ calls' = Tail(calls)
    /\ fn' = "steepest_ascent"
    /\ pc' = "loop"
    /\ current' = initial
    /\ history' = <<objective(initial)>>
    /\ it' = 0
    /\ UNCHANGED <<layoutOthers, ret, initial, max_iters, cold_after, best, least_seen>>

\* An iteration that moves to the best neighbour.
HcClimb ==
    /\ pc = "loop" /\ fn = "steepest_ascent"
    /\ it < max_iters
    /\ neighbors(current) # <<>>
    /\ HcImproves(MinByObjective(neighbors(current)), current)
    /\ current' = MinByObjective(neighbors(current))
    /\ history' = Append(history, objective(current'))
    /\ it' = it + 1
    /\ UNCHANGED <<layoutOthers, calls, pc, fn, ret, initial, max_iters, cold_after, best,
                   least_seen>>

\* The end of the for loop (max_iters iterations done) or one of its two
\* breaks, and the return.
HcReturn ==
    /\ pc = "loop" /\ fn = "steepest_ascent"
    /\ \/ it >= max_iters
       \/ neighbors(current) = <<>>
       \/ ~HcImproves(MinByObjective(neighbors(current)), current)
    /\ ret' = <<current, history>>
    /\ pc' = "returned"
    /\ UNCHANGED <<layoutOthers, calls, fn, initial, max_iters, cold_after, current, best,
                   history, it, least_seen>>

\* Mutant: best is replaced by every accepted candidate.
SaBetterAlways(candidate, kept) == TRUE

SaBetter(candidate, kept) == objective(candidate) < objective(kept)

\* The Metropolis test "delta < 0 or random.random() < math.exp(-delta / T)":
\* the outcomes it can have.  random.random() is below 1.0 = exp(0), so a
\* candidate that is no worse is always accepted.
Metropolis(candidate, positions) ==
    IF objective(candidate) - objective(positions) <= 0 THEN {TRUE} ELSE {TRUE, FALSE}

\* simulated_annealing(initial, T0, alpha, max_iters), up to the for loop.
CallSimulatedAnnealing ==
    /\ pc = "idle"
    /\ calls # <<>>
    /\ Head(calls) = "simulated_annealing"
    /\ calls' = Tail(calls)
    /\ fn' = "simulated_annealing"
    /\ pc' = "loop"
    /\ current' = initial
    /\ best' = initial
    /\ history' = <<objective(initial)>>
    /\ least_seen' = objective(initial)
    /\ it' = 0
    /\ UNCHANGED <<layoutOthers, ret, initial, max_iters, cold_after>>

\* One iteration of the for loop; after it T is below 1e-6 when cold_after
\* iterations are done, and the loop is left by its break.
SaIterate ==
    /\ pc = "loop" /\ fn = "simulated_annealing"
    /\ it < max_iters
    /\ \E candidate \in mutate(current) :
       \E accepted \in Metropolis(candidate, current) :
        /\ current' = IF accepted THEN candidate ELSE current
        /\ best' = IF accepted /\ SaBetter(candidate, best) THEN candidate ELSE best
        /\ least_seen' = Min(least_seen, objective(current'))
    /\ history' = Append(history, objective(best'))
    /\ it' = it + 1
    /\ IF it' >= cold_after
       THEN pc' = "returned" /\ ret' = <<best', history'>>
       ELSE pc' = pc /\ ret' = ret
    /\ UNCHANGED <<layoutOthers, calls, fn, initial, max_iters, cold_after>>

\* The end of the for loop after max_iters iterations, and the return.
SaReturn ==
    /\ pc = "loop" /\ fn = "simulated_annealing"
    /\ it >= max_iters
    /\ ret' = <<best, history>>
    /\ pc' = "returned"
    /\ UNCHANGED <<layoutOthers, calls, fn, initial, max_iters, cold_after, current, best,
                   history, it, least_seen>>

\* The layouts RackLayout.random_positions() can give: NumRacks distinct cells
\* other than the depot, in any order.
RandomPositions ==
    {p \in [1..NumRacks -> ((0..(GridSize - 1)) \X (0..(GridSize - 1))) \ {depot}] :
        \A i, j \in 1..NumRacks : i # j => p[i] # p[j]}

\* One call of steepest_ascent or simulated_annealing on a random layout.
InitLayout ==
    /\ rows = GridSize
    /\ cols = GridSize
    /\ walls = {}
    /\ start = <<0, 0>>
    /\ goal = <<0, 0>>
    /\ max_expansions = 0
    /\ keep_path = FALSE
    /\ record_pushes = FALSE
    /\ heuristic_arg = "manhattan_distance"
    /\ NoCallYet
    /\ NoAgent
    /\ calls \in {<<"steepest_ascent">>, <<"simulated_annealing">>}
    /\ initial \in RandomPositions
    /\ max_iters \in 0..MaxIters
    /\ cold_after \in {1, MaxIters + 1}
    /\ current = <<>>
    /\ best = <<>>
    /\ history = <<>>
    /\ it = 0
    /\ least_seen = 0
    /\ parent1 = <<>>
    /\ parent2 = <<>>
    /\ child = <<>>

NextLayout ==
    \/ CallSteepestAscent
    \/ HcClimb
    \/ HcReturn
    \/ CallSimulatedAnnealing
    \/ SaIterate
    \/ SaReturn

SpecLayout == InitLayout /\ [][NextLayout]_vars

-----------------------------------------------------------------------------
(* genetic_algorithm.py *)

\* crossover(parent1, parent2): the positions of the layouts it can return.
\* The fallback parent1.random_positions() draws a fresh random layout.
crossover(p1, p2) ==
    LET n               == Len(p1)
        cut             == n \div 2
        p1_prefix       == SubSeq(p1, 1, cut)
        p2_rest         == SelectSeq(p2, LAMBDA p : ~Occupied(p1_prefix, p))
        child_positions == p1_prefix \o p2_rest
    IN  IF Len(child_positions) # n THEN RandomPositions ELSE {child_positions}

\* child = crossover(p1, p2), line 43 of genetic_algorithm.
CallCrossover ==
    /\ pc = "idle"
    /\ calls # <<>>
    /\ Head(calls) = "crossover"
    /\ calls' = Tail(calls)
    /\ fn' = "crossover"
    /\ child' \in crossover(parent1, parent2)
    /\ pc' = "returned"
    /\ UNCHANGED <<rows, cols, walls, start, goal, max_expansions, keep_path, record_pushes,
                   heuristic_arg, frontier, explored, frontier_peak, nodes_expanded, ret,
                   earlier, push_order, agentVars, side, initial, max_iters, cold_after,
                   current, best, history, it, least_seen, parent1, parent2>>

\* child = child.mutate(), line 47 of genetic_algorithm.
GaMutate ==
    /\ pc = "returned" /\ fn = "crossover"
    /\ child' \in mutate(child)
    /\ fn' = "mutate"
    /\ UNCHANGED <<rows, cols, walls, start, goal, max_expansions, keep_path, record_pushes,
                   heuristic_arg, calls, pc, frontier, explored, frontier_peak, nodes_expanded,
                   ret, earlier, push_order, agentVars, side, initial, max_iters, cold_after,
                   current, best, history, it, least_seen, parent1, parent2>>

\* Two members of a population of random layouts are crossed over.
InitCrossover ==
    /\ rows = GridSize
    /\ cols = GridSize
    /\ walls = {}
    /\ start = <<0, 0>>
    /\ goal = <<0, 0>>
    /\ max_expansions = 0
    /\ keep_path = FALSE
    /\ record_pushes = FALSE
    /\ heuristic_arg = "manhattan_distance"
    /\ NoCallYet
    /\ NoAgent
    /\ calls = <<"crossover">>
    /\ initial = <<>>
    /\ max_iters = 0
    /\ cold_after = 0
    /\ current = <<>>
    /\ best = <<>>
    /\ history = <<>>
    /\ it = 0
    /\ least_seen = 0
    /\ parent1 \in RandomPositions
    /\ parent2 \in RandomPositions
    /\ child = <<>>

NextCrossover ==
    \/ CallCrossover
    \/ GaMutate

SpecCrossover == InitCrossover /\ [][NextCrossover]_vars

-----------------------------------------------------------------------------
(* Reference notions the properties are stated with *)

Returned == pc = "returned"

\* A path was returned by the call that just finished.
Found == Returned /\ ret[1] # None

RetPath == ret[1][1]

Passable == Cells(rows, cols) \ walls

Adjacent(p) ==
    {q \in {<<p[1] - 1, p[2]>>, <<p[1] + 1, p[2]>>, <<p[1], p[2] - 1>>, <<p[1], p[2] + 1>>} :
        q \in Passable}

AdjacentTo(ps) == UNION {Adjacent(p) : p \in ps}

\* Breadth-first search: seen holds the cells nearer than depth moves, layer the
\* cells at exactly depth moves.  The result is the number of moves to target,
\* -1 if there is no route.  (The next sets are bound by a quantifier over a
\* singleton, so that they are computed once.)
RECURSIVE BfsFrom(_, _, _, _)
BfsFrom(seen, layer, depth, target) ==
    IF target \in layer THEN depth
    ELSE IF layer = {} THEN 0 - 1
    ELSE CHOOSE d \in {BfsFrom(next[1], next[2], depth + 1, target) :
                          next \in {<<seen \cup layer, AdjacentTo(layer) \ (seen \cup layer)>>}} : TRUE

ShortestDistance == BfsFrom({}, {start}, 0, goal)

RECURSIVE Closure(_, _)
Closure(seen, layer) ==
    IF layer = {} THEN seen
    ELSE CHOOSE r \in {Closure(next[1], next[2]) :
                          next \in {<<seen \cup layer, AdjacentTo(layer) \ (seen \cup layer)>>}} : TRUE

\* The cells reachable from start, start included.
Reachable == Closure({}, {start})

Deltas == {MOVE_DELTAS[ACTS[i]] : i \in 1..Len(ACTS)}

\* The first call's statistics and this call's, once the second call has returned.
SecondReturned == Returned /\ Len(earlier) = 1

-----------------------------------------------------------------------------
(* Properties *)

\* C1: whenever uniformcost_search returns a path, its number of cells is the
\* breadth-first shortest distance from start to goal plus one.
C1_UcsPathIsShortest ==
    (Found /\ fn = "ucs") => Len(RetPath) = ShortestDistance + 1

\* C1 witness: UCS returned a path around an obstacle, longer than the
\* Manhattan distance allows on an open grid.
C1_Witness ==
    /\ Found /\ fn = "ucs"
    /\ Len(RetPath) > manhattan_distance(start, goal) + 1
    /\ Len(RetPath) = ShortestDistance + 1

\* C2 as claimed: on the same arguments uniformcost_search and astar_search
\* both return None or both return paths of the same length.
C2_SameOutcome ==
    (SecondReturned /\ earlier[1].fn = "ucs" /\ fn = "astar")
        => earlier[1].stats.path_length = ret[2].path_length

\* C2 amended: the same, provided neither call stopped on max_expansions (a call
\* that stops on it reports nodes_expanded > max_expansions).
C2_SameOutcomeIfCapNotHit ==
    (/\ SecondReturned /\ earlier[1].fn = "ucs" /\ fn = "astar"
     /\ earlier[1].stats.nodes_expanded <= max_expansions
     /\ ret[2].nodes_expanded <= max_expansions)
        => earlier[1].stats.path_length = ret[2].path_length

\* C2 witness: both calls returned a path of the same length, each after at
\* least two expansions, in an environment with an obstacle.
C2_Witness ==
    /\ SecondReturned /\ earlier[1].fn = "ucs" /\ fn = "astar"
    /\ walls # {}
    /\ ret[2].path_length # None
    /\ earlier[1].stats.path_length = ret[2].path_length
    /\ ret[2].nodes_expanded >= 2
    /\ earlier[1].stats.nodes_expanded <= max_expansions

\* C3: in a returned path consecutive positions differ by one of the four move
\* deltas and no position is a wall.
C3_PathIsValid ==
    Found =>
        /\ \A i \in 1..(Len(RetPath) - 1) :
              <<RetPath[i + 1][1] - RetPath[i][1], RetPath[i + 1][2] - RetPath[i][2]>> \in Deltas
        /\ \A i \in 1..Len(RetPath) : ~is_wall(RetPath[i][1], RetPath[i][2])

\* C3 witness: a returned path of at least four cells in an environment with walls.
C3_Witness ==
    /\ Found
    /\ walls # {}
    /\ Len(RetPath) >= 4

\* C4: a returned path starts with start and ends with goal.
C4_PathEndpoints ==
    Found =>
        /\ Len(RetPath) >= 1
        /\ RetPath[1] = start
        /\ RetPath[Len(RetPath)] = goal

\* C4 witness: a returned path of at least three cells.
C4_Witness ==
    /\ Found
    /\ Len(RetPath) >= 3
    /\ RetPath[1] = start
    /\ RetPath[Len(RetPath)] = goal

\* C5: with the same arguments astar_search reports no more nodes_expanded than
\* uniformcost_search, whichever way ties were resolved in either call.
C5_AstarExpandsNoMore ==
    (SecondReturned /\ earlier[1].fn = "ucs" /\ fn = "astar")
        => ret[2].nodes_expanded <= earlier[1].stats.nodes_expanded

\* C5 witness: both found a path and A* expanded strictly fewer nodes.
C5_Witness ==
    /\ SecondReturned /\ earlier[1].fn = "ucs" /\ fn = "astar"
    /\ ret[2].path_length # None
    /\ earlier[1].stats.path_length # None
    /\ ret[2].nodes_expanded < earlier[1].stats.nodes_expanded

\* C6 as claimed: two calls of the same function on the same arguments return
\* the same path and the same statistics.
C6_RepeatedCallsAgree ==
    (SecondReturned /\ earlier[1].fn = fn)
        => (earlier[1].path = ret[1] /\ earlier[1].stats = ret[2])

\* C7: when goal is not reachable from start and max_expansions is at least the
\* number of reachable cells, the call returns None, path_length None and
\* nodes_expanded equal to the number of reachable cells.
C7_UnreachableGoal ==
    Returned =>
        LET reachable == Reachable
        IN  (goal \notin reachable /\ max_expansions >= Cardinality(reachable))
                => /\ ret[1] = None
                   /\ ret[2].path_length = None
                   /\ ret[2].nodes_expanded = Cardinality(reachable)

\* C7 witness: an unreachable goal with at least three reachable cells.
C7_Witness ==
    /\ Returned /\ goal \notin Reachable
    /\ max_expansions >= Cardinality(Reachable)
    /\ Cardinality(Reachable) >= 3
    /\ ret[2].nodes_expanded = Cardinality(Reachable)

\* C8 as claimed: every returned statistics record has nodes_expanded at most
\* max_expansions, and a call that returns None reports path_length None.
C8_ExpansionsWithinCap ==
    Returned =>
        /\ ret[2].nodes_expanded <= max_expansions
        /\ (ret[1] = None => ret[2].path_length = None)

\* C9: with start = goal the call returns [start], path_length 1,
\* nodes_expanded 0 and frontier_peak 1, whatever max_expansions is.
C9_StartIsGoal ==
    (Returned /\ start = goal) => ret = <<Some(<<start>>), Stats(0, Some(1), 1)>>

\* C9 witness: astar_search returned on start = goal with max_expansions 0.
C9_Witness ==
    /\ Returned /\ start = goal /\ fn = "astar"
    /\ max_expansions = 0
    /\ ret[1] = Some(<<start>>)

\* C11 as claimed: every pop of either search removes an entry of least
\* priority and, among the entries of that priority, the one pushed earliest.
C11_PopsFifo ==
    [][(pc = "loop" /\ record_pushes) =>
          \A e \in frontier \ frontier' :
              /\ \A o \in frontier : e.prio <= o.prio
              /\ e = SelectSeq(push_order, LAMBDA x : x.prio = e.prio)[1]]_vars

\* The three ways in which a call ends.
EndedByGoal == ret[1] # None /\ ret[1][1][Len(ret[1][1])] = goal

EndedByCap == ret[1] = None /\ nodes_expanded > max_expansions

EndedByExhaustion == ret[1] = None /\ nodes_expanded <= max_expansions /\ frontier = {}

\* C12: every call returns (each behaviour makes one call), and it has then
\* ended in exactly one of the three ways: the goal was popped, the expansion
\* counter exceeded max_expansions, or the frontier became empty.
C12_CallTerminates ==
    <>(/\ Returned
       /\ EndedByGoal \/ EndedByCap \/ EndedByExhaustion
       /\ ~(EndedByGoal /\ EndedByCap)
       /\ ~(EndedByGoal /\ EndedByExhaustion)
       /\ ~(EndedByCap /\ EndedByExhaustion))

\* C12 witness: with max_expansions far above the number of cells a call ended
\* because the frontier became empty, after at least three expansions.
C12_Witness ==
    /\ Returned
    /\ max_expansions > Cardinality(Cells(rows, cols))
    /\ EndedByExhaustion
    /\ nodes_expanded >= 3

\* The agents' notions: the target of the observation, the cell a move leads
\* to, and the moves into a passable cell that is nearer to the target.
Cardinal == {"N", "E", "S", "W"}

ObsTarget == IF obs.has_item THEN obs.dropoff_pos ELSE obs.pickup_pos

Moved(p, m) ==
    CASE m = "N" -> <<p[1] - 1, p[2]>>
      [] m = "S" -> <<p[1] + 1, p[2]>>
      [] m = "E" -> <<p[1], p[2] + 1>>
      [] m = "W" -> <<p[1], p[2] - 1>>

Dist(p, q) == Abs(p[1] - q[1]) + Abs(p[2] - q[2])

PassableMoves == {m \in Cardinal : Moved(obs.robot_pos, m) \in Passable}

ReducingMoves ==
    {m \in PassableMoves :
        Dist(Moved(obs.robot_pos, m), ObsTarget[1]) < Dist(obs.robot_pos, ObsTarget[1])}

\* C13: ReflexAgent.select_action returns PICK, by its first rule, whenever the
\* robot is on the pickup tile and not carrying, and DROP, by its second rule,
\* whenever it is on the dropoff tile and carrying.
C13_ReflexPickDrop ==
    fn = "reflex" =>
        /\ (~obs.has_item /\ obs.pickup_pos = Some(obs.robot_pos))
              => (last_action = Some("PICK") /\ branch = "pick")
        /\ (obs.has_item /\ obs.dropoff_pos = Some(obs.robot_pos))
              => (last_action = Some("DROP") /\ branch = "drop")

\* C13 witness: carrying on a tile that is both pickup and dropoff, with an
\* obstacle in the grid: DROP.
C13_Witness ==
    /\ fn = "reflex"
    /\ obs.has_item
    /\ obs.pickup_pos = Some(obs.robot_pos)
    /\ obs.dropoff_pos = Some(obs.robot_pos)
    /\ walls # {}
    /\ last_action = Some("DROP")

\* C14: off the target tile with a passable neighbour nearer to the target,
\* ReflexAgent.select_action returns a move into such a neighbour; and a
\* returned cardinal move never leads into a wall and leads away from the
\* target only if no passable neighbour is nearer.
C14_ReflexMovesCloser ==
    fn = "reflex" =>
        /\ last_action[1] \in Cardinal => last_action[1] \in PassableMoves
        /\ ObsTarget # None =>
            /\ (obs.robot_pos # ObsTarget[1] /\ ReducingMoves # {})
                  => last_action[1] \in ReducingMoves
            /\ (/\ last_action[1] \in Cardinal
                /\ Dist(Moved(obs.robot_pos, last_action[1]), ObsTarget[1])
                       > Dist(obs.robot_pos, ObsTarget[1]))
                  => ReducingMoves = {}

\* C14 witness: the preferred move is blocked by an obstacle and the returned
\* move is another one, into a passable cell nearer to the target.
C14_Witness ==
    /\ fn = "reflex"
    /\ branch = "candidate"
    /\ ObsTarget # None
    /\ last_action[1] \in ReducingMoves
    /\ Cardinality(Cardinal \ PassableMoves) >= 3

\* The last step was a call of select_action (reset leaves by no return
\* statement of it).
Selected == fn = "greedy" /\ branch \notin {"none", "reset"}

\* C15: every cardinal move GreedyManhattanAgent.select_action returns leads to
\* a cell that is no wall, WAIT is returned only when all four neighbours are
\* walls, and on the dropoff tile without an item, off the pickup tile, with a
\* passable neighbour, the call returns one of N, E, S, W.
C15_GreedyMovesAreValid ==
    Selected =>
        /\ last_action[1] \in Cardinal => last_action[1] \in PassableMoves
        /\ last_action[1] = "WAIT" => PassableMoves = {}
        /\ (/\ ~obs.has_item
            /\ obs.dropoff_pos = Some(obs.robot_pos)
            /\ obs.pickup_pos # Some(obs.robot_pos)
            /\ PassableMoves # {})
              => last_action[1] \in Cardinal

\* C15 witness: after earlier calls that filled the history, a call on the
\* dropoff tile without an item returned a cardinal move by the rule of
\* lines 54-74.
C15_Witness ==
    /\ Selected
    /\ branch = "off_dropoff"
    /\ recent # <<>>
    /\ last_action[1] \in PassableMoves
    /\ Cardinality(PassableMoves) >= 2

\* C16: a call of select_action with escape_counter 0 at a position of the
\* history, which is neither answered by PICK or DROP nor the dropoff tile
\* without an item, sets escape_counter to escape_steps (> 0), leaves the
\* history as it is, and returns a cardinal move if a neighbour is passable.
C16_LoopDetectionArmsEscape ==
    [][(/\ Selected'
        /\ escape_counter = 0
        /\ \E i \in 1..Len(recent) : recent[i] = obs'.robot_pos
        /\ ~(~obs'.has_item /\ obs'.pickup_pos = Some(obs'.robot_pos))
        /\ ~(obs'.has_item /\ obs'.dropoff_pos = Some(obs'.robot_pos))
        /\ ~(~obs'.has_item /\ obs'.dropoff_pos = Some(obs'.robot_pos)))
          => /\ escape_counter' = EscapeSteps
             /\ escape_counter' > 0
             /\ recent' = recent
             /\ PassableMoves' # {} => last_action'[1] \in Cardinal]_vars

\* C16 witness: loop detection has just fired and a cardinal move was returned.
C16_Witness ==
    /\ Selected
    /\ branch = "loop"
    /\ escape_counter = EscapeSteps
    /\ \E i \in 1..Len(recent) : recent[i] = obs.robot_pos
    /\ last_action[1] \in Cardinal

\* A sequence of numbers in which every element is below the one before it.
StrictlyDecreasing(h) == \A i \in 1..(Len(h) - 1) : h[i] > h[i + 1]

\* A sequence of numbers in which no element is above the one before it.
NonIncreasing(h) == \A i \in 1..(Len(h) - 1) : h[i] >= h[i + 1]

HcReturned == fn = "steepest_ascent" /\ Returned

SaReturned == fn = "simulated_annealing" /\ Returned

\* C17: for every initial layout and every max_iters >= 0, steepest_ascent
\* returns a layout whose objective is at most the initial layout's, the
\* returned history starts at the initial objective and is strictly
\* decreasing, and the positions of the initial layout are never changed.
C17_SteepestAscentDescends ==
    /\ [](HcReturned =>
            /\ objective(ret[1]) <= objective(initial)
            /\ Len(ret[2]) >= 1
            /\ ret[2][1] = objective(initial)
            /\ StrictlyDecreasing(ret[2]))
    /\ [][initial' = initial]_vars

\* steepest_ascent has returned after at least two improving moves.
C17_Witness ==
    /\ HcReturned
    /\ Len(ret[2]) >= 3
    /\ objective(ret[1]) < objective(initial)
    /\ ret[1] # initial

\* C18: for every initial layout and every sequence of Metropolis outcomes,
\* simulated_annealing returns a best layout whose objective is at most the
\* initial objective and equals the least objective among the layouts the
\* chain has been in (the initial one and every accepted candidate), and the
\* returned history is non-increasing.
C18_AnnealingKeepsBest ==
    SaReturned =>
        /\ objective(ret[1]) <= objective(initial)
        /\ objective(ret[1]) = least_seen
        /\ NonIncreasing(ret[2])

\* simulated_annealing has returned after accepting an improving candidate and
\* then a worsening one.
C18_Witness ==
    /\ SaReturned
    /\ objective(ret[1]) < objective(initial)
    /\ objective(current) > objective(ret[1])
    /\ Len(ret[2]) >= 3

\* The number of moves of a shortest route from start to p, -1 if there is none.
DistanceFromStart(p) == BfsFrom({}, {start}, 0, p)

InUcs == fn = "ucs"

\* C19: at every point of a run of uniformcost_search, the cost recorded in
\* explored for a position is the position's shortest distance from start;
\* a position is finalized at most once (as many positions are recorded as
\* finalizations were counted, and a recorded cost is never replaced); and
\* positions are finalized in non-decreasing order of cost.
C19_UcsFinalizesAtShortest ==
    /\ [](InUcs =>
            /\ \A p \in DOMAIN explored : explored[p] = DistanceFromStart(p)
            /\ nodes_expanded = Cardinality(DOMAIN explored))
    /\ [][InUcs =>
            /\ \A p \in DOMAIN explored :
                  p \in DOMAIN explored' /\ explored'[p] = explored[p]
            /\ \A p \in DOMAIN explored' \ DOMAIN explored :
                  \A q \in DOMAIN explored : explored[q] <= explored'[p]]_vars

\* uniformcost_search has finalized four positions around a wall, one of them
\* two moves or more from start, and a frontier entry for a finalized
\* position is waiting to be discarded.
C19_Witness ==
    /\ InUcs
    /\ walls # {}
    /\ Cardinality(DOMAIN explored) >= 4
    /\ \E p \in DOMAIN explored : explored[p] >= 2
    /\ \E e \in frontier : e.node.position \in DOMAIN explored

InAstar == fn = "astar"

\* The entry a step of the loop pops from the frontier: the entries a step
\* pushes are new nodes, so the popped one is the only one that leaves.
Popped == frontier \ frontier'

\* C20: in astar_search with the Manhattan heuristic, the node popped for a
\* position that is not in explored (the first pop of that position) has the
\* position's shortest distance from start as its g, so that no node the
\* membership test on explored discards has a g below the one the first pop
\* had.
C20_AstarFirstPopIsShortest ==
    [][InAstar =>
        \A e \in Popped :
            /\ e.node.position \notin explored
                  => e.node.g = DistanceFromStart(e.node.position)
            /\ e.node.position \in explored
                  => e.node.g >= DistanceFromStart(e.node.position)]_vars

\* astar_search has popped three positions around a wall for the first time,
\* and a second node for a position in explored waits in the frontier.
C20_Witness ==
    /\ InAstar
    /\ walls # {}
    /\ Cardinality(explored) >= 3
    /\ \E e \in frontier : e.node.position \in explored /\ e.node.g >= 2

\* The true remaining cost from p to goal, -1 if goal cannot be reached from p.
RemainingCost(p) == BfsFrom({}, {p}, 0, goal)

\* The heuristic argument never overestimates the true remaining cost.
Admissible ==
    \A p \in Passable :
        RemainingCost(p) >= 0 => (0 <= heuristic(p, goal) /\ heuristic(p, goal) <= RemainingCost(p))

\* C21 as claimed: with an admissible heuristic astar_search reports no more
\* nodes_expanded than uniformcost_search on the same arguments.
C21_AdmissibleExpandsNoMore ==
    (SecondReturned /\ earlier[1].fn = "ucs" /\ fn = "astar" /\ Admissible)
        => ret[2].nodes_expanded <= earlier[1].stats.nodes_expanded

\* The number of parent links from node back to the root.
RECURSIVE ParentLinks(_)
ParentLinks(node) == IF node.parent = None THEN 0 ELSE 1 + ParentLinks(node.parent[1])

\* node and the nodes its parent links lead to.
RECURSIVE Lineage(_)
Lineage(node) == IF node.parent = None THEN {node} ELSE {node} \cup Lineage(node.parent[1])

\* The nodes created so far that are still referenced: those in the frontier
\* and their ancestors.
LiveNodes == UNION {Lineage(e.node) : e \in frontier}

InSearch == fn \in {"ucs", "astar"}

\* C22: every node created during a search has g equal to the number of parent
\* links back to the root (the root has g = 0 and no parent); when a path is
\* returned, the reported path_length is the popped goal node's g + 1 and the
\* number of cells of the returned path.
C22_CostCountsParentLinks ==
    /\ [](InSearch => \A n \in LiveNodes :
                          /\ n.g = ParentLinks(n)
                          /\ (n.parent = None) = (n.g = 0))
    /\ [][(InSearch /\ pc = "loop" /\ pc' = "returned" /\ ret'[1] # None) =>
            \A e \in Popped :
                /\ e.node.g = ParentLinks(e.node)
                /\ ret'[2].path_length = Some(e.node.g + 1)
                /\ ret'[2].path_length = Some(Len(ret'[1][1]))]_vars

\* A search returned a path of at least four cells while nodes three or more
\* links from the root wait in the frontier.
C22_Witness ==
    /\ Found
    /\ Len(RetPath) >= 4
    /\ ret[2].path_length = Some(Len(RetPath))
    /\ \E e \in frontier : e.node.g >= 3 /\ ParentLinks(e.node) >= 3

\* C23: in both searches frontier_peak is the largest number of entries the
\* frontier has held at any moment of the run so far: it is the size of the
\* one-entry frontier when the loop is entered, after every step of the loop
\* it is the larger of what it was and the size of the frontier (within a step
\* the frontier is largest before the pop or after the last push), and the
\* returned frontier_peak is that value on every way out of the loop.
C23_PeakIsLargestFrontier ==
    /\ [](InSearch => frontier_peak >= Cardinality(frontier))
    /\ [][InSearch' =>
            /\ pc # "loop" => (frontier_peak' = Cardinality(frontier') /\ frontier_peak' = 1)
            /\ pc = "loop" =>
                  frontier_peak' = IF Cardinality(frontier') > frontier_peak
                                   THEN Cardinality(frontier') ELSE frontier_peak
            /\ pc' = "returned" => ret'[2].frontier_peak = frontier_peak']_vars

\* A search returned on the cap, with a frontier that once held three entries
\* or more and holds fewer now.
C23_Witness ==
    /\ InSearch /\ Returned
    /\ ret[1] = None
    /\ frontier # {}
    /\ ret[2].frontier_peak >= 3
    /\ Cardinality(frontier) < ret[2].frontier_peak

\* The positions in the explored structure: the keys of the dict of
\* uniformcost_search, the elements of the set of astar_search.
ExploredPositions == IF fn = "ucs" THEN DOMAIN explored ELSE explored

\* C24: in both searches nodes_expanded is, at every point of the run, the
\* number of distinct positions in explored; and a step that pops an entry
\* whose position is already in explored changes neither explored nor
\* nodes_expanded nor frontier_peak, pushes nothing, and stays in the loop.
C24_CountsFinalizedOnly ==
    /\ [](InSearch => nodes_expanded = Cardinality(ExploredPositions))
    /\ [][(InSearch /\ pc = "loop" /\ \E e \in Popped : e.node.position \in ExploredPositions) =>
            /\ explored' = explored
            /\ nodes_expanded' = nodes_expanded
            /\ frontier_peak' = frontier_peak
            /\ frontier' \subseteq frontier
            /\ pc' = "loop"]_vars

\* Three positions are finalized and the entry the next pop takes can be one
\* for a position that is already finalized.
C24_Witness ==
    /\ InSearch /\ pc = "loop"
    /\ nodes_expanded >= 3
    /\ nodes_expanded = Cardinality(ExploredPositions)
    /\ \E e \in heappop(frontier) : e.node.position \in ExploredPositions

\* The cardinal moves from p that lead to a passable cell.
PassableMovesFrom(p) == {m \in Cardinal : Moved(p, m) \in Passable}

\* The actions select_action can return for observation o in the agent's
\* present state, by the return statements of the part named part.
Returnable(o, part) ==
    {out.action : out \in {x \in GreedySelectAction(o, recent, escape_counter) : x.branch = part}}

\* C26 as claimed: while an escape is in progress (escape_counter > 0), a
\* move-selecting call may return any passable cardinal move, whatever the
\* direction of the goal.
C26_EscapeMovesAreRandom ==
    (fn = "greedy" /\ escape_counter > 0) =>
        \A o \in Observations :
            (Returnable(o, "escaping") # {} /\ PassableMovesFrom(o.robot_pos) # {})
                => Returnable(o, "escaping") = PassableMovesFrom(o.robot_pos)

\* C27: after reset() and any sequence of select_action calls, the history
\* holds at most loop_history_size positions, no position twice, and
\* escape_counter is within 0..escape_steps; a call that returns PICK or DROP
\* changes neither the history nor escape_counter.
C27_HistoryAndCounterBounded ==
    /\ [](fn = "greedy" =>
            /\ Len(recent) <= loop_history_size
            /\ \A i, j \in 1..Len(recent) : i # j => recent[i] # recent[j]
            /\ escape_counter \in 0..EscapeSteps)
    /\ [][(Selected' /\ last_action'[1] \in {"PICK", "DROP"}) =>
            (recent' = recent /\ escape_counter' = escape_counter)]_vars

\* PICK was returned during an escape, with a full history of two or more
\* positions.
C27_Witness ==
    /\ Selected
    /\ last_action = Some("PICK")
    /\ escape_counter > 0
    /\ Len(recent) >= 2
    /\ Len(recent) = loop_history_size

\* The racks in which layout lay differs from layout orig.
MovedRacks(orig, lay) == {i \in 1..Len(orig) : lay[i] # orig[i]}

PairwiseDistinct(lay) == \A i, j \in 1..Len(lay) : i # j => lay[i] # lay[j]

\* steepest_ascent is about to compute current.neighbors().
AboutToExpandLayout == fn = "steepest_ascent" /\ pc = "loop" /\ it < max_iters

\* C28: every layout neighbors() returns for a layout of pairwise distinct
\* positions differs from it in exactly one rack, which is one step away in x
\* or in y, and has pairwise distinct positions inside the grid; the layout
\* neighbors() was called on is what it was (the call that breaks on the
\* result returns it unchanged).
C28_NeighborsMoveOneRack ==
    /\ [](AboutToExpandLayout =>
            \A k \in 1..Len(neighbors(current)) :
                LET lay == neighbors(current)[k]
                IN  /\ Len(lay) = Len(current)
                    /\ Cardinality(MovedRacks(current, lay)) = 1
                    /\ \A i \in MovedRacks(current, lay) :
                          Abs(lay[i][1] - current[i][1]) + Abs(lay[i][2] - current[i][2]) = 1
                    /\ PairwiseDistinct(lay)
                    /\ \A i \in 1..Len(lay) :
                          /\ 0 <= lay[i][1] /\ lay[i][1] < GridSize
                          /\ 0 <= lay[i][2] /\ lay[i][2] < GridSize)
    /\ [][(AboutToExpandLayout /\ pc' = "returned") =>
            (current' = current /\ ret'[1] = current /\ initial' = initial)]_vars

\* After one move, steepest_ascent is about to compute the neighbours of a
\* layout that has some, fewer than four per rack.
C28_Witness ==
    /\ AboutToExpandLayout
    /\ it >= 1
    /\ Len(neighbors(current)) >= 2
    /\ Len(neighbors(current)) < 4 * Len(current)

\* C29 as claimed: no layout steepest_ascent or simulated_annealing visits or
\* returns, starting from a layout of random_positions(), has a rack on the
\* depot cell.
C29_DepotStaysFree ==
    (fn \in {"steepest_ascent", "simulated_annealing"} /\ pc # "idle") =>
        /\ ~Occupied(initial, depot)
        /\ ~Occupied(current, depot)
        /\ Returned => ~Occupied(ret[1], depot)

\* C30 as claimed: crossover returns a child with as many positions as the
\* parents have, pairwise distinct, whose first n // 2 positions are parent1's
\* first n // 2 and whose other positions are positions of parent2 in
\* parent2's order.
C30_CrossoverKeepsPrefix ==
    (fn = "crossover" /\ Returned) =>
        LET n   == Len(parent1)
            cut == n \div 2
        IN  /\ Len(child) = n
            /\ PairwiseDistinct(child)
            /\ SubSeq(child, 1, cut) = SubSeq(parent1, 1, cut)
            /\ SubSeq(child, cut + 1, Len(child))
                 = SelectSeq(parent2, LAMBDA p : Occupied(SubSeq(child, cut + 1, Len(child)), p))

\* The entries of a frontier as priorities and routes.
UcsRoutes(fr) == {<<e.prio, UcsPath(e.node)>> : e \in fr}

AstarRoutes(fr) == {<<e.prio, AstarPath(e.node)>> : e \in fr}

\* C25: uniformcost_search and astar_search with a heuristic that is always
\* zero, run side by side with the same tie-break choices, pop the same
\* position at every iteration, push the same children (uniformcost_search
\* never pushes a child for a position that is in explored), hold the same
\* routes at the same priorities, finalize the same positions, return at the
\* same iteration, and return the same path, nodes_expanded and frontier_peak.
C25_ZeroHeuristicIsUcs ==
    side # <<>> =>
        /\ side.ucs.pc = side.astar.pc
        /\ side.ucs.popped = side.astar.popped
        /\ side.ucs.pops = side.astar.pops
        /\ side.ucs.pushed = side.astar.pushed
        /\ ~side.ucs.reinserted
        /\ UcsRoutes(side.ucs.frontier) = AstarRoutes(side.astar.frontier)
        /\ DOMAIN side.ucs.explored = side.astar.explored
        /\ side.ucs.nodes_expanded = side.astar.nodes_expanded
        /\ side.ucs.frontier_peak = side.astar.frontier_peak
        /\ side.ucs.ret = side.astar.ret

\* Both runs returned the same path of three cells or more around a wall,
\* after three expansions or more and a discarded stale entry.
C25_Witness ==
    /\ side # <<>>
    /\ side.ucs.pc = "returned" /\ side.astar.pc = "returned"
    /\ walls # {}
    /\ side.astar.ret[1] # None
    /\ Len(side.astar.ret[1][1]) >= 3
    /\ side.ucs.ret = side.astar.ret
    /\ side.astar.nodes_expanded >= 3
    /\ side.astar.pops >= side.astar.nodes_expanded + 2


====
